---- MODULE Spec2Model ----
(***************************************************************************)
(* Model of package backdrop (src/backdrop.go): a map from *http.Request   *)
(* to context.Context owned by a pool of worker goroutines that serve five *)
(* buffered message channels, with a start-once / stop lifecycle.          *)
(***************************************************************************)
EXTENDS Integers, Sequences, FiniteSets, TLC

\* ---------------------------------------------------------------- bounds
\* number of caller goroutines using the public API
NumCallers == 2
\* total number of Evict, GetContext, SetContext, Set and Get calls
MaxCalls == 3
\* the same for the one sequential caller of SpecSeq
MaxSeqCalls == 4
\* largest NumWorkers / BufferSize option handed to Start
MaxWorkers == 2
MaxBuffer == 1
\* request identities, caller keys and string values
NumRequests == 2
MaxKey == 2
NumStrs == 2

\* ------------------------------------------------------ program constants
workerDoneKey == 0
cancelKey == 1

Callers == 1..NumCallers
Workers == 1..MaxWorkers
Requests == 1..NumRequests
Keys == cancelKey..MaxKey
Kinds == {"fetchCtx", "setCtx", "fetch", "set", "kill"}

\* ------------------------------------------------------------ data model
\* interface{} values: nil, a string, a context.CancelFunc of a cancel scope,
\* or (as the reply to a set message) a context
Nil == [vk |-> "nil", n |-> 0]
Str(i) == [vk |-> "str", n |-> i]
Fn(s) == [vk |-> "fn", n |-> s]
CtxV == [vk |-> "ctx", n |-> 0]

\* a context.Context: nil, or the list of its nodes from the root to the leaf.
\* A node is a cancelCtx (k is its scope) or a valueCtx (key k, value v).
\* context.Background() is the empty list.
NilCtx == [isnil |-> TRUE, nodes |-> <<>>]
Background == [isnil |-> FALSE, nodes |-> <<>>]
CancelNode(s) == [t |-> "cancel", k |-> s, v |-> Nil]
ValueNode(k, v) == [t |-> "value", k |-> k, v |-> v]

\* scope 0 is the root scope made by startBackdrop; the workers' baseCtx.
\* The scope below it is one a caller made itself with context.WithCancel.
rootScope == 0
userScope == rootScope - 1
BaseCtx == [isnil |-> FALSE, nodes |-> <<CancelNode(rootScope)>>]

WithCancel(ctx, s) == [isnil |-> FALSE, nodes |-> Append(ctx.nodes, CancelNode(s))]
WithValue(ctx, k, v) == [isnil |-> FALSE, nodes |-> Append(ctx.nodes, ValueNode(k, v))]

\* ctx.Value(key): the value of the valueCtx nearest to the leaf that carries key
RECURSIVE ValueAt(_, _, _)
ValueAt(nodes, i, key) ==
    IF i = 0 THEN Nil
    ELSE IF nodes[i].t = "value" /\ nodes[i].k = key THEN nodes[i].v
    ELSE ValueAt(nodes, i - 1, key)

Value(ctx, key) == ValueAt(ctx.nodes, Len(ctx.nodes), key)

\* <-ctx.Done() can return: some cancelCtx of the chain has been cancelled
IsDone(ctx, cancelledScopes) ==
    \E i \in 1..Len(ctx.nodes) :
        ctx.nodes[i].t = "cancel" /\ ctx.nodes[i].k \in cancelledScopes

\* a map lookup  ctx, ok := contexts[r]
Absent == [ok |-> FALSE, ctx |-> NilCtx]
Present(ctx) == [ok |-> TRUE, ctx |-> ctx]

\* results handed back to the caller by the dispatcher functions
NoMsg == [caller |-> 0, kind |-> "none", r |-> 0, key |-> 0, value |-> Nil, ctx |-> NilCtx]
NoRet == [err |-> "pending", val |-> Nil, ctx |-> NilCtx]
NoLast == [msg |-> NoMsg, ret |-> NoRet]

VARIABLES
    started,     \* initOnce has run
    numWorkers,  \* workers spawned by startBackdrop
    bufferSize,  \* capacity of the five message channels
    chans,       \* fetchCtx, setCtx, fetch, set, kill: the buffered messages
    stopped,     \* number of acknowledgments buffered in channel stopped
    contexts,    \* the global map of contexts
    cancelled,   \* the cancel scopes whose cancel function has been called
    nextScope,   \* the next fresh cancel scope
    haltIdx,     \* the worker the supervisor goroutine signals next
    wpc,         \* each worker's position
    wmsg,        \* the message a worker is handling
    wctx,        \* the worker's local  ctx, ok := contexts[message.Request]
    cpc,         \* each caller's position
    call,        \* the message a caller parked on a full channel is sending
    acks,        \* acknowledgments a caller inside Stop has read
    last,        \* the call that returned last, and what it returned
    calls,       \* number of API calls issued
    seen,        \* number of distinct requests the callers have used
    evicted,     \* history: Evict(r) returned, and no Set or GetContext on r since
    inflight,    \* history: callers with a message enqueued at the root cancellation
    crashed      \* the runtime aborted the process on a concurrent map access

vars == <<started, numWorkers, bufferSize, chans, stopped, contexts, cancelled,
          nextScope, haltIdx, wpc, wmsg, wctx, cpc, call, acks, last, calls, seen,
          evicted, inflight, crashed>>

storeVars == <<contexts, cancelled, nextScope>>
workerVars == <<wpc, wmsg, wctx>>
callerVars == <<cpc, call, acks, last, calls, seen, evicted, inflight>>
initVars == <<started, numWorkers, bufferSize>>

EmptyChans == [fetchCtx |-> <<>>, setCtx |-> <<>>, fetch |-> <<>>, set |-> <<>>, kill |-> <<>>]

Init ==
    /\ started = FALSE
    /\ numWorkers = 0
    /\ bufferSize = 0
    /\ chans = EmptyChans
    /\ stopped = 0
    /\ contexts = [r \in Requests |-> Absent]
    /\ cancelled = {}
    /\ nextScope = 1
    /\ haltIdx = 1
    /\ wpc = [w \in Workers |-> "none"]
    /\ wmsg = [w \in Workers |-> NoMsg]
    /\ wctx = [w \in Workers |-> Absent]
    /\ cpc = [c \in Callers |-> "idle"]
    /\ call = [c \in Callers |-> NoMsg]
    /\ acks = [c \in Callers |-> 0]
    /\ last = NoLast
    /\ calls = 0
    /\ seen = 0
    /\ evicted = [r \in Requests |-> FALSE]
    /\ inflight = {}
    /\ crashed = FALSE

\* ------------------------------------------------------------- lifecycle
\* Options.SaneDefaults
SaneDefaults(n) == IF n <= 0 THEN 1 ELSE n

\* startBackdrop as it would be without initOnce: every call makes the channels
\* and the map anew and spawns its workers
startBackdropNoOnce(workers, size) ==
    /\ started' = TRUE
    /\ numWorkers' = workers
    /\ bufferSize' = size
    /\ chans' = EmptyChans
    /\ stopped' = 0
    /\ contexts' = [r \in Requests |-> Absent]
    /\ wpc' = [w \in Workers |-> IF w <= workers THEN "select" ELSE "none"]
    /\ UNCHANGED <<cancelled, nextScope, haltIdx, wmsg, wctx, callerVars, crashed>>

\* Start -> startBackdrop: initOnce.Do makes every call after the first a no-op
startBackdrop(workers, size) ==
    IF started
    THEN UNCHANGED vars
    ELSE /\ started' = TRUE
         /\ numWorkers' = workers
         /\ bufferSize' = size
         /\ chans' = EmptyChans
         /\ stopped' = 0
         /\ contexts' = [r \in Requests |-> Absent]
         /\ wpc' = [w \in Workers |-> IF w <= workers THEN "select" ELSE "none"]
         /\ UNCHANGED <<cancelled, nextScope, haltIdx, wmsg, wctx, callerVars, crashed>>

Start(optWorkers, optBuffer) ==
    /\ ~crashed
    /\ startBackdrop(SaneDefaults(optWorkers), SaneDefaults(optBuffer))

\* Stop: done(), then one read of channel stopped per worker
Stop(c) ==
    /\ ~crashed /\ started
    /\ cpc[c] = "idle"
    /\ cancelled' = cancelled \cup {rootScope}
    /\ cpc' = [cpc EXCEPT ![c] = "stop_wait"]
    /\ acks' = [acks EXCEPT ![c] = 0]
    /\ inflight' = IF rootScope \in cancelled THEN inflight
                   ELSE {d \in Callers : cpc[d] = "waiting"}
    /\ UNCHANGED <<initVars, chans, stopped, contexts, nextScope, haltIdx, workerVars,
                   call, last, calls, seen, evicted, crashed>>

StopMsg(c) == [NoMsg EXCEPT !.caller = c, !.kind = "stop"]

\* Stop as it would be if it read one acknowledgment instead of one per worker
StopReceiveFirstAck(c) ==
    /\ ~crashed
    /\ cpc[c] = "stop_wait"
    /\ stopped > 0
    /\ stopped' = stopped - 1
    /\ cpc' = [cpc EXCEPT ![c] = "idle"]
    /\ acks' = [acks EXCEPT ![c] = 0]
    /\ last' = [msg |-> StopMsg(c), ret |-> [NoRet EXCEPT !.err = "nil"]]
    /\ UNCHANGED <<initVars, chans, storeVars, haltIdx, workerVars, call, calls, seen,
                   evicted, inflight, crashed>>

\* one iteration of Stop's loop  for _ = range workerChannels { <-stopped }
StopReceive(c) ==
    /\ ~crashed
    /\ cpc[c] = "stop_wait"
    /\ stopped > 0
    /\ stopped' = stopped - 1
    /\ IF acks[c] + 1 = numWorkers
       THEN /\ cpc' = [cpc EXCEPT ![c] = "idle"]
            /\ acks' = [acks EXCEPT ![c] = 0]
            /\ last' = [msg |-> StopMsg(c), ret |-> [NoRet EXCEPT !.err = "nil"]]
       ELSE /\ acks' = [acks EXCEPT ![c] = @ + 1]
            /\ UNCHANGED <<cpc, last>>
    /\ UNCHANGED <<initVars, chans, storeVars, haltIdx, workerVars, call, calls, seen,
                   evicted, inflight, crashed>>

\* ------------------------------------------------------------ dispatcher
\* the channel send of a dispatcher function: it completes when the buffer has
\* room and parks the caller otherwise. Requests are opaque tokens: the callers
\* take them in order of first use.
Dispatch(c, m) ==
    /\ ~crashed /\ started
    /\ cpc[c] = "idle"
    /\ m.r <= seen + 1
    /\ seen' = IF m.r > seen THEN m.r ELSE seen
    /\ IF Len(chans[m.kind]) < bufferSize
       THEN /\ chans' = [chans EXCEPT ![m.kind] = Append(@, m)]
            /\ cpc' = [cpc EXCEPT ![c] = "waiting"]
            /\ call' = call
       ELSE /\ chans' = chans
            /\ cpc' = [cpc EXCEPT ![c] = "sending"]
            /\ call' = [call EXCEPT ![c] = m]
    /\ UNCHANGED <<initVars, stopped, storeVars, haltIdx, workerVars, acks, last,
                   evicted, inflight, crashed>>

\* a parked sender's message enters the buffer once there is room
SendUnblock(c) ==
    /\ ~crashed
    /\ cpc[c] = "sending"
    /\ Len(chans[call[c].kind]) < bufferSize
    /\ chans' = [chans EXCEPT ![call[c].kind] = Append(@, call[c])]
    /\ cpc' = [cpc EXCEPT ![c] = "waiting"]
    /\ call' = [call EXCEPT ![c] = NoMsg]
    /\ UNCHANGED <<initVars, stopped, storeVars, haltIdx, workerVars, acks, last, calls,
                   seen, evicted, inflight, crashed>>

Evict(c, r) ==
    Dispatch(c, [caller |-> c, kind |-> "kill", r |-> r, key |-> 0, value |-> Nil, ctx |-> NilCtx])

GetContext(c, r) ==
    Dispatch(c, [caller |-> c, kind |-> "fetchCtx", r |-> r, key |-> 0, value |-> Nil, ctx |-> NilCtx])

SetContext(c, r, ctx) ==
    Dispatch(c, [caller |-> c, kind |-> "setCtx", r |-> r, key |-> 0, value |-> Nil, ctx |-> ctx])

Set(c, r, k, v) ==
    Dispatch(c, [caller |-> c, kind |-> "set", r |-> r, key |-> k, value |-> v, ctx |-> NilCtx])

Get(c, r, k) ==
    Dispatch(c, [caller |-> c, kind |-> "fetch", r |-> r, key |-> k, value |-> Nil, ctx |-> NilCtx])

\* what the dispatcher function returns for the reply it reads
Returned(kind, reply) ==
    CASE kind = "fetch" ->
            IF reply.val = Nil
            THEN [err |-> "ErrGettingFromBackdrop", val |-> Nil, ctx |-> NilCtx]
            ELSE [err |-> "nil", val |-> reply.val, ctx |-> NilCtx]
      [] kind = "set" ->
            IF reply.val = Nil
            THEN [err |-> "ErrSettingToBackdrop", val |-> Nil, ctx |-> NilCtx]
            ELSE [err |-> "nil", val |-> Nil, ctx |-> NilCtx]
      [] kind = "fetchCtx" -> [err |-> "nil", val |-> Nil, ctx |-> reply.ctx]
      [] OTHER -> [err |-> "nil", val |-> Nil, ctx |-> NilCtx]

\* the values a caller hands to Set under key k: nil and strings under a key of
\* its own; under the int 1 a string or a context.CancelFunc it made itself
CallerValues(k) ==
    IF k = cancelKey
    THEN {Str(1), Fn(userScope)}
    ELSE {Nil} \cup {Str(i) : i \in 1..NumStrs}

\* the contexts a caller hands to SetContext(r, .): nil, one built on
\* context.Background(), the context GetContext returns for some request, or
\* that of r extended with context.WithValue
StoredContexts(rs) ==
    {contexts[r].ctx : r \in {q \in rs : contexts[q].ok /\ ~contexts[q].ctx.isnil}}

CallerContexts(r) ==
    {NilCtx, WithValue(Background, MaxKey, Str(1))}
        \cup StoredContexts(Requests)
        \cup {WithValue(x, MaxKey, Str(NumStrs)) : x \in StoredContexts({r})}

\* ---------------------------------------------------------------- worker
NilReply == [val |-> Nil, ctx |-> NilCtx]
CtxReply(ctx) == [val |-> CtxV, ctx |-> ctx]
NoEffect == [store |-> "none", ctx |-> NilCtx, cancel |-> {}, fresh |-> FALSE,
             wait |-> FALSE, replies |-> <<>>]

\* a fresh entry: context.WithCancel(baseCtx)
NewCancelCtx(s) == WithCancel(BaseCtx, s)

\* the fetchCtx case as it would be without its  continue : the branch for an
\* existing entry falls through to the creation and the second reply
onFetchCtxNoContinue(e, m, s) ==
    LET ctx == WithValue(NewCancelCtx(s), cancelKey, Fn(s))
    IN [NoEffect EXCEPT !.store = "put", !.ctx = ctx, !.fresh = TRUE,
                        !.replies = IF e.ok /\ ~e.ctx.isnil
                                    THEN <<CtxReply(e.ctx), CtxReply(ctx)>>
                                    ELSE <<CtxReply(ctx)>>]

\* case message := <-fetchCtx
onFetchCtx(e, m, s) ==
    IF e.ok /\ ~e.ctx.isnil
    THEN [NoEffect EXCEPT !.replies = <<CtxReply(e.ctx)>>]
    ELSE LET ctx == WithValue(NewCancelCtx(s), cancelKey, Fn(s))
         IN [NoEffect EXCEPT !.store = "put", !.ctx = ctx, !.fresh = TRUE,
                             !.replies = <<CtxReply(ctx)>>]

\* the fetch case as it would be if it replied the context, as the fetchCtx
\* case does, instead of the value under the key
onFetchRepliesCtx(e, m, s) ==
    IF e.ok /\ ~e.ctx.isnil
    THEN [NoEffect EXCEPT !.replies = <<CtxReply(e.ctx)>>]
    ELSE [NoEffect EXCEPT !.replies = <<NilReply>>]

\* case message := <-fetch
onFetch(e, m, s) ==
    IF e.ok /\ ~e.ctx.isnil
    THEN [NoEffect EXCEPT !.replies = <<[val |-> Value(e.ctx, m.key), ctx |-> NilCtx]>>]
    ELSE [NoEffect EXCEPT !.replies = <<NilReply>>]

\* the kill case as it would be with the delete outside the test for the
\* cancel function: an entry without one is removed too
onKillDeletesAlways(e, m, s) ==
    IF e.ok /\ ~e.ctx.isnil /\ Value(e.ctx, cancelKey).vk = "fn"
    THEN [NoEffect EXCEPT !.cancel = {Value(e.ctx, cancelKey).n}, !.wait = TRUE,
                          !.store = "del", !.replies = <<NilReply>>]
    ELSE [NoEffect EXCEPT !.store = IF e.ok THEN "del" ELSE "none",
                          !.replies = <<NilReply>>]

\* case message := <-kill
onKill(e, m, s) ==
    IF e.ok /\ ~e.ctx.isnil /\ Value(e.ctx, cancelKey).vk = "fn"
    THEN [NoEffect EXCEPT !.cancel = {Value(e.ctx, cancelKey).n}, !.wait = TRUE,
                          !.store = "del", !.replies = <<NilReply>>]
    ELSE [NoEffect EXCEPT !.replies = <<NilReply>>]

\* the setCtx case as it would be with its test negated: it stores the context
\* when the request has no entry and leaves an existing entry alone
onSetCtxIfAbsent(e, m, s) ==
    IF ~e.ok
    THEN [NoEffect EXCEPT !.store = "put", !.ctx = m.ctx, !.replies = <<NilReply>>]
    ELSE [NoEffect EXCEPT !.replies = <<NilReply>>]

\* case message := <-setCtx
onSetCtx(e, m, s) ==
    IF e.ok
    THEN [NoEffect EXCEPT !.store = "put", !.ctx = m.ctx, !.replies = <<NilReply>>]
    ELSE [NoEffect EXCEPT !.replies = <<NilReply>>]

\* the set case as it would be without the map write of its creating branch
onSetNoStore(e, m, s) ==
    IF e.ok /\ ~e.ctx.isnil
    THEN LET ctx == WithValue(e.ctx, m.key, m.value)
         IN [NoEffect EXCEPT !.store = "put", !.ctx = ctx, !.replies = <<CtxReply(ctx)>>]
    ELSE LET ctx == WithValue(WithValue(NewCancelCtx(s), m.key, m.value), cancelKey, Fn(s))
         IN [NoEffect EXCEPT !.fresh = TRUE, !.replies = <<CtxReply(ctx)>>]

\* case message := <-set
onSet(e, m, s) ==
    IF e.ok /\ ~e.ctx.isnil
    THEN LET ctx == WithValue(e.ctx, m.key, m.value)
         IN [NoEffect EXCEPT !.store = "put", !.ctx = ctx, !.replies = <<CtxReply(ctx)>>]
    ELSE LET ctx == WithValue(WithValue(NewCancelCtx(s), m.key, m.value), cancelKey, Fn(s))
         IN [NoEffect EXCEPT !.store = "put", !.ctx = ctx, !.fresh = TRUE,
                             !.replies = <<CtxReply(ctx)>>]

\* the body of the select case that received m, given the lookup e: the scopes
\* it cancels, whether it then waits for <-ctx.Done(), its map write and the
\* replies it sends
Effect(e, m, s) ==
    CASE m.kind = "fetchCtx" -> onFetchCtx(e, m, s)
      [] m.kind = "fetch" -> onFetch(e, m, s)
      [] m.kind = "kill" -> onKill(e, m, s)
      [] m.kind = "setCtx" -> onSetCtx(e, m, s)
      [] m.kind = "set" -> onSet(e, m, s)

\* the map after the case body's write
Stored(eff, r) ==
    CASE eff.store = "put" -> [contexts EXCEPT ![r] = Present(eff.ctx)]
      [] eff.store = "del" -> [contexts EXCEPT ![r] = Absent]
      [] OTHER -> contexts

\* the sends on message.RespondTo: the caller reads exactly one reply, so a
\* case body that sends none leaves it waiting and one that sends a second
\* blocks the worker
Respond(w, m, replies) ==
    /\ IF Len(replies) = 0
       THEN UNCHANGED <<cpc, last>>
       ELSE /\ cpc' = [cpc EXCEPT ![m.caller] = "idle"]
            /\ last' = [msg |-> m, ret |-> Returned(m.kind, replies[1])]
    /\ wpc' = [wpc EXCEPT ![w] = IF Len(replies) > 1 THEN "reply_blocked" ELSE "select"]
    /\ wmsg' = [wmsg EXCEPT ![w] = NoMsg]
    /\ wctx' = [wctx EXCEPT ![w] = Absent]
    /\ evicted' = [evicted EXCEPT ![m.r] =
                      CASE m.kind = "kill" -> TRUE
                        [] m.kind \in {"set", "fetchCtx"} -> FALSE
                        [] OTHER -> @]
    /\ inflight' = IF Len(replies) = 0 THEN inflight ELSE inflight \ {m.caller}

\* a select case receives a message and looks the request up in the map
WorkerReceive(w, kind) ==
    /\ ~crashed
    /\ wpc[w] = "select"
    /\ chans[kind] # <<>>
    /\ wmsg' = [wmsg EXCEPT ![w] = Head(chans[kind])]
    /\ wctx' = [wctx EXCEPT ![w] = contexts[Head(chans[kind]).r]]
    /\ chans' = [chans EXCEPT ![kind] = Tail(@)]
    /\ wpc' = [wpc EXCEPT ![w] = "handle"]
    /\ UNCHANGED <<initVars, stopped, storeVars, haltIdx, callerVars, crashed>>

\* the rest of the case body: cancel, map write and reply
WorkerHandle(w) ==
    /\ ~crashed
    /\ wpc[w] = "handle"
    /\ LET m == wmsg[w]
           eff == Effect(wctx[w], m, nextScope)
       IN /\ cancelled' = cancelled \cup eff.cancel
          /\ nextScope' = IF eff.fresh THEN nextScope + 1 ELSE nextScope
          /\ IF eff.wait /\ ~IsDone(wctx[w].ctx, cancelled \cup eff.cancel)
             THEN /\ wpc' = [wpc EXCEPT ![w] = "kill_wait"]
                  /\ UNCHANGED <<contexts, cpc, last, wmsg, wctx, evicted, inflight>>
             ELSE /\ contexts' = Stored(eff, m.r)
                  /\ Respond(w, m, eff.replies)
    /\ UNCHANGED <<initVars, chans, stopped, haltIdx, call, acks, calls, seen, crashed>>

\* <-ctx.Done() returns in the kill case: delete the entry and reply
WorkerKillDone(w) ==
    /\ ~crashed
    /\ wpc[w] = "kill_wait"
    /\ IsDone(wctx[w].ctx, cancelled)
    /\ LET m == wmsg[w]
           eff == Effect(wctx[w], m, nextScope)
       IN /\ contexts' = Stored(eff, m.r)
          /\ Respond(w, m, eff.replies)
    /\ UNCHANGED <<initVars, chans, stopped, cancelled, nextScope, haltIdx,
                   call, acks, calls, seen, crashed>>

\* case <-halt: the supervisor goroutine, woken by the root cancellation,
\* sends on each worker's unbuffered halt channel in turn
WorkerHalt(w) ==
    /\ ~crashed
    /\ wpc[w] = "select"
    /\ rootScope \in cancelled
    /\ haltIdx = w
    /\ haltIdx' = haltIdx + 1
    /\ wpc' = [wpc EXCEPT ![w] = "exited"]
    /\ UNCHANGED <<initVars, chans, stopped, storeVars, wmsg, wctx, callerVars, crashed>>

\* stopped <- true, after the loop
WorkerAck(w) ==
    /\ ~crashed
    /\ wpc[w] = "exited"
    /\ stopped' = stopped + 1
    /\ wpc' = [wpc EXCEPT ![w] = "stopped"]
    /\ UNCHANGED <<initVars, chans, storeVars, haltIdx, wmsg, wctx, callerVars, crashed>>

\* the map is shared by the workers without a lock: when one worker is about
\* to write it while another is inside a case body or about to read it, the
\* Go runtime may abort the process (fatal error: concurrent map writes)
Writes(w) ==
    /\ wpc[w] \in {"handle", "kill_wait"}
    /\ Effect(wctx[w], wmsg[w], nextScope).store # "none"

Reads(w) ==
    \/ wpc[w] = "handle"
    \/ wpc[w] = "select" /\ \E kind \in Kinds : chans[kind] # <<>>

MapRaceFault(w1, w2) ==
    /\ ~crashed
    /\ w1 # w2
    /\ Writes(w1)
    /\ Reads(w2)
    /\ crashed' = TRUE
    /\ UNCHANGED <<initVars, chans, stopped, storeVars, haltIdx, workerVars, callerVars>>

\* ------------------------------------------------------- specifications
\* the options a Start call carries; once initOnce has run they are not read,
\* and one call stands for all
StartOptions(maxWorkers) ==
    IF started THEN {<<0, 0>>} ELSE (0..maxWorkers) \X (0..MaxBuffer)

\* the calls of the callers cs on the requests rs, at most limit of them
\* (Stop apart)
CallerStep(cs, rs, limit) ==
    \/ \E c \in cs : Stop(c)
    \/ \E c \in cs : StopReceive(c)
    \/ /\ calls < limit
       /\ calls' = calls + 1
       /\ \/ \E c \in cs, r \in rs : Evict(c, r)
          \/ \E c \in cs, r \in rs : GetContext(c, r)
          \/ \E c \in cs, r \in rs : \E ctx \in CallerContexts(r) : SetContext(c, r, ctx)
          \/ \E c \in cs, r \in rs, k \in Keys : \E v \in CallerValues(k) : Set(c, r, k, v)
          \/ \E c \in cs, r \in rs, k \in Keys : Get(c, r, k)

\* the package with any worker count up to MaxWorkers
Next ==
    \/ \E o \in StartOptions(MaxWorkers) : Start(o[1], o[2])
    \/ CallerStep(Callers, Requests, MaxCalls)
    \/ \E c \in Callers : SendUnblock(c)
    \/ \E w \in Workers, kind \in Kinds : WorkerReceive(w, kind)
    \/ \E w \in Workers : WorkerHandle(w)
    \/ \E w \in Workers : WorkerKillDone(w)
    \/ \E w \in Workers : WorkerHalt(w)
    \/ \E w \in Workers : WorkerAck(w)
    \/ \E w1 \in Workers, w2 \in Workers : MapRaceFault(w1, w2)

Spec == Init /\ [][Next]_vars

\* the package started with one worker (NumWorkers 0 or 1, the default)
NextOne ==
    \/ \E o \in StartOptions(1) : Start(o[1], o[2])
    \/ CallerStep(Callers, Requests, MaxCalls)
    \/ \E c \in Callers : SendUnblock(c)
    \/ \E w \in Workers, kind \in Kinds : WorkerReceive(w, kind)
    \/ \E w \in Workers : WorkerHandle(w)
    \/ \E w \in Workers : WorkerKillDone(w)
    \/ \E w \in Workers : WorkerHalt(w)
    \/ \E w \in Workers : WorkerAck(w)

SpecOne == Init /\ [][NextOne]_vars

\* one worker and one caller that makes its calls one after the other on one
\* request: no send ever finds the buffer full, and nothing cancels a scope
\* while the worker handles a message
NextSeq ==
    \/ \E o \in StartOptions(1) : Start(o[1], o[2])
    \/ CallerStep({1}, {1}, MaxSeqCalls)
    \/ \E w \in Workers, kind \in Kinds : WorkerReceive(w, kind)
    \/ \E w \in Workers : WorkerHandle(w)
    \/ \E w \in Workers : WorkerHalt(w)
    \/ \E w \in Workers : WorkerAck(w)

SpecSeq == Init /\ [][NextSeq]_vars

\* one worker and one caller that makes its calls one after the other on any
\* of the requests
NextPair ==
    \/ \E o \in StartOptions(1) : Start(o[1], o[2])
    \/ CallerStep({1}, Requests, MaxSeqCalls)
    \/ \E w \in Workers, kind \in Kinds : WorkerReceive(w, kind)
    \/ \E w \in Workers : WorkerHandle(w)
    \/ \E w \in Workers : WorkerHalt(w)
    \/ \E w \in Workers : WorkerAck(w)

SpecPair == Init /\ [][NextPair]_vars

\* the Go scheduler runs every goroutine that can take a step: a worker that
\* can receive, finish a case body, halt or acknowledge eventually does, and
\* so does a caller reading channel stopped
FairSeq ==
    /\ SpecSeq
    /\ \A w \in Workers :
          /\ WF_vars(\E kind \in Kinds : WorkerReceive(w, kind))
          /\ WF_vars(WorkerHandle(w))
          /\ WF_vars(WorkerHalt(w))
          /\ WF_vars(WorkerAck(w))
    /\ \A c \in Callers : WF_vars(StopReceive(c))

\* the Evict, GetContext, SetContext, Set and Get calls of the callers cs on the
\* requests rs, at most limit of them
Calls(cs, rs, limit) ==
    /\ calls < limit
    /\ calls' = calls + 1
    /\ \/ \E c \in cs, r \in rs : Evict(c, r)
       \/ \E c \in cs, r \in rs : GetContext(c, r)
       \/ \E c \in cs, r \in rs : \E ctx \in CallerContexts(r) : SetContext(c, r, ctx)
       \/ \E c \in cs, r \in rs, k \in Keys : \E v \in CallerValues(k) : Set(c, r, k, v)
       \/ \E c \in cs, r \in rs, k \in Keys : Get(c, r, k)

\* one worker, one caller that makes its calls one after the other on one
\* request, and another goroutine that calls Stop
Stopper == NumCallers

NextStop ==
    \/ \E o \in StartOptions(1) : Start(o[1], o[2])
    \/ Calls({1}, {1}, MaxSeqCalls)
    \/ Stop(Stopper)
    \/ StopReceive(Stopper)
    \/ \E w \in Workers, kind \in Kinds : WorkerReceive(w, kind)
    \/ \E w \in Workers : WorkerHandle(w)
    \/ \E w \in Workers : WorkerKillDone(w)
    \/ \E w \in Workers : WorkerHalt(w)
    \/ \E w \in Workers : WorkerAck(w)

SpecStop == Init /\ [][NextStop]_vars

\* the same scheduling as FairSeq; a worker whose wait for <-ctx.Done() can
\* end eventually goes on
FairStop ==
    /\ SpecStop
    /\ \A w \in Workers :
          /\ WF_vars(\E kind \in Kinds : WorkerReceive(w, kind))
          /\ WF_vars(WorkerHandle(w))
          /\ WF_vars(WorkerKillDone(w))
          /\ WF_vars(WorkerHalt(w))
          /\ WF_vars(WorkerAck(w))
    /\ WF_vars(StopReceive(Stopper))

\* ----------------------------------------------------------------- claims
NotFound == [err |-> "ErrGettingFromBackdrop", val |-> Nil, ctx |-> NilCtx]
Found(v) == [err |-> "nil", val |-> v, ctx |-> NilCtx]
Expected(v) == IF v = Nil THEN NotFound ELSE Found(v)

\* what a Get(r, k) served against the map ctxs returns
GetAnswer(ctxs, r, k) ==
    Returned("fetch", onFetch(ctxs[r], [NoMsg EXCEPT !.kind = "fetch", !.r = r, !.key = k],
                              nextScope).replies[1])

\* this step is worker w receiving a message of this kind
Receives(w, kind) ==
    wpc[w] = "select" /\ wpc'[w] = "handle" /\ wmsg'[w].kind = kind

\* this step is worker w replying to a message of this kind: the call returns
Returns(w, kind) ==
    /\ wpc[w] \in {"handle", "kill_wait"}
    /\ wmsg[w].kind = kind
    /\ cpc[wmsg[w].caller] = "waiting"
    /\ cpc'[wmsg[w].caller] = "idle"

\* the messages of caller c in the channels and in the workers' hands
InChannel(c) ==
    {<<kind, i>> \in Kinds \X (1..MaxBuffer) :
        i <= Len(chans[kind]) /\ chans[kind][i].caller = c}

InHand(c) == {w \in Workers : wpc[w] \in {"handle", "kill_wait"} /\ wmsg[w].caller = c}

StopReturned == last.msg.kind = "stop"

\* C1: when Set(r, k, v) returns success, Get(r, k) returns v, and it keeps
\* returning the value it finds until a Set(r, k, .), SetContext(r, .) or
\* Evict(r) is served
C1_SetThenGet ==
    [][/\ \A w \in Workers :
            Returns(w, "set") /\ last'.ret.err = "nil"
                => GetAnswer(contexts', wmsg[w].r, wmsg[w].key) = Expected(wmsg[w].value)
       /\ \A r \in Requests, k \in Keys :
            (/\ GetAnswer(contexts, r, k) # NotFound
             /\ \A w \in Workers :
                  ~(wmsg[w].r = r /\ (\/ Returns(w, "set") /\ wmsg[w].key = k
                                      \/ Returns(w, "setCtx")
                                      \/ Returns(w, "kill"))))
                => GetAnswer(contexts', r, k) = GetAnswer(contexts, r, k)]_vars

\* C2: once Evict(r) has returned, and until a Set or GetContext on r is
\* served, Get(r, k) returns NotFound for every key k
C2_EvictThenNotFound ==
    \A r \in Requests, k \in Keys : evicted[r] => GetAnswer(contexts, r, k) = NotFound

\* the value of key k in a context: that of the last node, counted from the
\* root, that carries k, and nil when no node does
Resolved(ctx, k) ==
    LET carrying == {i \in 1..Len(ctx.nodes) :
                        ctx.nodes[i].t = "value" /\ ctx.nodes[i].k = k}
    IN IF carrying = {} THEN Nil
       ELSE ctx.nodes[CHOOSE i \in carrying : \A j \in carrying : j <= i].v

\* C3: a worker serves Get(r, k) from the entry the map holds for r when it
\* receives the message; Get returns NotFound exactly when there is no entry,
\* the entry is nil or k resolves to nil in it, and the resolved value
\* otherwise; a request no call has named has no entry
C3_GetNotFoundIff ==
    [][/\ \A w \in Workers :
            /\ Receives(w, "fetch") => wctx'[w] = contexts[wmsg'[w].r]
            /\ Returns(w, "fetch") =>
                  last'.ret = IF \/ ~wctx[w].ok
                                 \/ wctx[w].ctx.isnil
                                 \/ Resolved(wctx[w].ctx, wmsg[w].key) = Nil
                              THEN NotFound
                              ELSE Found(Resolved(wctx[w].ctx, wmsg[w].key))
       /\ \A r \in Requests : r > seen' => contexts'[r] = Absent]_vars

\* C3 witness: a Get has returned a string found under a key of an entry
C3_Witness ==
    /\ last.msg.kind = "fetch"
    /\ last.ret.err = "nil"
    /\ last.ret.val.vk = "str"

\* C4: SetContext(r, c) on a request without an entry changes no entry and
\* returns nil, and Get(r, k) then returns NotFound; so does Get(r, k) after
\* Evict(r) followed by SetContext(r, c)
C4_SetContextNoEntry ==
    [][\A w \in Workers :
          Returns(w, "setCtx") =>
              /\ ~contexts[wmsg[w].r].ok =>
                    /\ contexts' = contexts
                    /\ last'.ret.err = "nil"
                    /\ \A k \in Keys : GetAnswer(contexts', wmsg[w].r, k) = NotFound
              /\ evicted[wmsg[w].r] =>
                    \A k \in Keys : GetAnswer(contexts', wmsg[w].r, k) = NotFound]_vars

\* C5: GetContext(r) returns a context that is not nil, stores the one it makes
\* for a request without an entry, and returns the context that the GetContext(r)
\* served just before it returned
C5_GetContextIdempotent ==
    [][\A w \in Workers :
          Returns(w, "fetchCtx") =>
              /\ ~last'.ret.ctx.isnil
              /\ ~wctx[w].ok => contexts'[wmsg[w].r] = Present(last'.ret.ctx)
              /\ last.msg.kind = "fetchCtx" /\ last.msg.r = wmsg[w].r
                    => last'.ret.ctx = last.ret.ctx]_vars

\* C6: with one worker, every Set(r, k, x) of a string x returns success,
\* Get(r, k) then returns x, and the string that Get returns for any other key
\* of r is the one it returned before: no write is lost
C6_ConcurrentSetsKept ==
    [][\A w \in Workers :
          Returns(w, "set") /\ wmsg[w].value.vk = "str" =>
              /\ last'.ret.err = "nil"
              /\ GetAnswer(contexts', wmsg[w].r, wmsg[w].key) = Found(wmsg[w].value)
              /\ \A k \in Keys \ {wmsg[w].key} :
                    GetAnswer(contexts, wmsg[w].r, k).val.vk = "str"
                        => GetAnswer(contexts', wmsg[w].r, k)
                               = GetAnswer(contexts, wmsg[w].r, k)]_vars

\* C7: a caller waiting for its reply has exactly one message, in a channel or
\* in the hands of a worker inside the case body (no worker went back to the
\* select without replying); a caller that is not waiting has none (no second
\* reply is due), and no worker is blocked sending a second reply
C7_ExactlyOneReply ==
    /\ \A w \in Workers : wpc[w] # "reply_blocked"
    /\ \A c \in Callers :
          Cardinality(InChannel(c)) + Cardinality(InHand(c))
              = IF cpc[c] = "waiting" THEN 1 ELSE 0

\* C7 witness: an Evict of an entry that carries no cancel function has
\* returned, and the entry is still there
C7_Witness ==
    /\ last.msg.kind = "kill"
    /\ contexts[last.msg.r].ok
    /\ ~contexts[last.msg.r].ctx.isnil
    /\ Value(contexts[last.msg.r].ctx, cancelKey).vk # "fn"

\* C8: while Stop has not been called, a caller whose message is enqueued
\* eventually gets its reply
C8_EveryCallReturns ==
    \A c \in Callers :
        (cpc[c] = "waiting") ~> (cpc[c] = "idle" \/ rootScope \in cancelled)

\* C9: once Stop has returned, every spawned worker has left its loop and has
\* sent its acknowledgment
C9_StopAfterAllWorkers ==
    StopReturned => \A w \in Workers : w <= numWorkers => wpc[w] = "stopped"

\* C9 witness: Stop has returned with two workers spawned
C9_Witness == StopReturned /\ numWorkers = MaxWorkers

\* C10: once Stop has returned, every call whose message was enqueued when the
\* root scope was cancelled has been replied to
C10_StopAfterInFlight == StopReturned => inflight = {}

\* this step is worker w finishing the case body of its message
Finishes(w) == wpc[w] \in {"handle", "kill_wait"} /\ wpc'[w] \in {"select", "reply_blocked"}

\* C11: once the store is started no step, a later Start with any options
\* included, starts it again: the worker count and the buffer size stay, no
\* worker is spawned or respawned, a channel loses a message only to a worker
\* that receives it, the acknowledgments are taken only by Stop, the root
\* scope stays cancelled once cancelled, and the map changes only by the
\* write of a worker finishing a message, on that message's request
C11_StartOnce ==
    [][started =>
          /\ started'
          /\ numWorkers' = numWorkers /\ bufferSize' = bufferSize
          /\ \A w \in Workers :
                /\ (wpc[w] = "none") = (wpc'[w] = "none")
                /\ wpc[w] \in {"exited", "stopped"} => wpc'[w] \in {"exited", "stopped"}
          /\ \A kind \in Kinds :
                \/ chans'[kind] = chans[kind]
                \/ /\ Len(chans'[kind]) = Len(chans[kind]) + 1
                   /\ SubSeq(chans'[kind], 1, Len(chans[kind])) = chans[kind]
                \/ \E w \in Workers : /\ Receives(w, kind)
                                      /\ wmsg'[w] = Head(chans[kind])
                                      /\ chans'[kind] = Tail(chans[kind])
          /\ stopped' < stopped => \E c \in Callers : cpc[c] = "stop_wait"
          /\ rootScope \in cancelled => rootScope \in cancelled'
          /\ contexts' # contexts =>
                \E w \in Workers :
                    /\ Finishes(w)
                    /\ \A r \in Requests \ {wmsg[w].r} : contexts'[r] = contexts[r]]_vars

\* C11 witness: the store is started, holds an entry and a buffered message and
\* has a worker inside a case body: a Start that initialized again would show
C11_Witness ==
    /\ started
    /\ \E r \in Requests : contexts[r].ok
    /\ \E kind \in Kinds : chans[kind] # <<>>
    /\ \E w \in Workers : wpc[w] = "handle"

\* the workers inside a case body: between the map lookup and the reply
InBody == {w \in Workers : wpc[w] \in {"handle", "kill_wait"}}

\* C12: for every worker count the store handles one message at a time: at
\* most one worker is inside a case body, the entry it looked up is still the
\* one the map holds when it writes, and the runtime never finds two workers
\* on the map at once
C12_Serialized ==
    /\ ~crashed
    /\ Cardinality(InBody) <= 1
    /\ \A w \in InBody : wctx[w] = contexts[wmsg[w].r]

\* this step is worker w running the kill case up to its reply or its wait
Kills(w) == wpc[w] = "handle" /\ wmsg[w].kind = "kill" /\ wpc'[w] # "handle"

\* the chain stored for r is live: there is one and none of its scopes is cancelled
Live(ctxs, r, cs) == ctxs[r].ok /\ ~ctxs[r].ctx.isnil /\ ~IsDone(ctxs[r].ctx, cs)

\* C13: an Evict(r) cancels neither the root scope nor the chain stored for
\* another request
C13_EvictOwnScope ==
    [][\A w \in Workers :
          Kills(w) =>
              /\ rootScope \in cancelled' => rootScope \in cancelled
              /\ \A r \in Requests \ {wmsg[w].r} :
                    Live(contexts, r, cancelled) => Live(contexts', r, cancelled')]_vars

\* a SetContext(r, .) served against the map ctxs writes the map
SetContextTakesEffect(ctxs, r) ==
    onSetCtx(ctxs[r], [NoMsg EXCEPT !.kind = "setCtx", !.r = r], nextScope).store = "put"

GetContextAnswer(ctxs, r) ==
    Returned("fetchCtx",
             onFetchCtx(ctxs[r], [NoMsg EXCEPT !.kind = "fetchCtx", !.r = r],
                        nextScope).replies[1]).ctx

\* C15: when SetContext(r, c) returns that found an entry for r, it returns
\* nil, the entry is c, GetContext(r) returns c and Get(r, k) returns what k
\* resolves to in c alone
C15_SetContextOverwrites ==
    [][\A w \in Workers :
          Returns(w, "setCtx") /\ wctx[w].ok =>
              /\ last'.ret.err = "nil"
              /\ contexts'[wmsg[w].r] = Present(wmsg[w].ctx)
              /\ GetContextAnswer(contexts', wmsg[w].r) = wmsg[w].ctx
              /\ \A k \in Keys :
                    GetAnswer(contexts', wmsg[w].r, k) = Expected(Resolved(wmsg[w].ctx, k))]_vars

\* C15 as amended: the same, except that after SetContext(r, nil) the entry is
\* nil and GetContext(r) returns a new chain made on the base scope, not nil
C15_SetContextOverwritesNonNil ==
    [][\A w \in Workers :
          Returns(w, "setCtx") /\ wctx[w].ok =>
              /\ last'.ret.err = "nil"
              /\ contexts'[wmsg[w].r] = Present(wmsg[w].ctx)
              /\ GetContextAnswer(contexts', wmsg[w].r)
                    = IF wmsg[w].ctx.isnil
                      THEN WithValue(NewCancelCtx(nextScope'), cancelKey, Fn(nextScope'))
                      ELSE wmsg[w].ctx
              /\ \A k \in Keys :
                    GetAnswer(contexts', wmsg[w].r, k) = Expected(Resolved(wmsg[w].ctx, k))]_vars

\* C15 witness: a SetContext has installed a chain that extends the one
\* GetContext returned, and the value added to it is what Get returns
C15_Witness ==
    /\ last.msg.kind = "setCtx"
    /\ ~last.msg.ctx.isnil
    /\ contexts[last.msg.r] = Present(last.msg.ctx)
    /\ Len(last.msg.ctx.nodes) > 2
    /\ GetAnswer(contexts, last.msg.r, MaxKey) = Found(Str(NumStrs))

\* the lookup e gives no cancel function: no entry, a nil entry, or a chain in
\* which cancelKey resolves to nothing or to something else
NoHandle(e) == ~e.ok \/ e.ctx.isnil \/ Resolved(e.ctx, cancelKey).vk # "fn"

CallsStop(c) == cpc[c] = "idle" /\ cpc'[c] = "stop_wait"

\* the acknowledgments buffered in channel stopped or still to be sent
AcksToCome ==
    stopped + Cardinality({w \in Workers : w <= numWorkers /\ wpc[w] # "stopped"})

\* C17: a Stop called after a Stop has returned changes nothing and can
\* return: the root scope was cancelled already, and there is, or will be,
\* one acknowledgment per worker for it to read
C17_StopIdempotent ==
    [][\A c \in Callers :
          StopReturned /\ CallsStop(c) =>
              /\ cancelled' = cancelled
              /\ AcksToCome' >= numWorkers]_vars

\* C18: the first Stop, once called, eventually returns
C18_FirstStopReturns ==
    (~StopReturned /\ \E c \in Callers : cpc[c] = "stop_wait") ~> StopReturned

\* v is a cancel function the store made for an entry
IsStoreHandle(v) == v.vk = "fn" /\ v.n > rootScope

\* C19: a Set(r, k, v) leaves the cancel function that Evict(r) looks up as it
\* was (and puts one there when it makes the entry), the value it stored is
\* what Get(r, k) returns, and no Get returns a cancel function of the store
C19_HandleIsolated ==
    [][\A w \in Workers :
          /\ Returns(w, "set") =>
                /\ IF wctx[w].ok /\ ~wctx[w].ctx.isnil
                   THEN Resolved(contexts'[wmsg[w].r].ctx, cancelKey)
                            = Resolved(wctx[w].ctx, cancelKey)
                   ELSE IsStoreHandle(Resolved(contexts'[wmsg[w].r].ctx, cancelKey))
                /\ GetAnswer(contexts', wmsg[w].r, wmsg[w].key) = Expected(wmsg[w].value)
          /\ Returns(w, "fetch") => ~IsStoreHandle(last'.ret.val)]_vars

\* C20: once Stop has returned nothing returns any more: no step, a Start
\* included, hands a caller a reply or an error, a caller inside a call stays
\* inside it, and every spawned worker stays stopped
C20_NoReturnAfterStop ==
    [][StopReturned =>
          /\ last' = last
          /\ \A c \in Callers : cpc[c] # "idle" => cpc'[c] # "idle"
          /\ \A w \in Workers : w <= numWorkers' => wpc'[w] = "stopped"]_vars

\* C20 witness: the caller whose Stop returned has made a call since, and is
\* blocked in it
C20_Witness ==
    /\ StopReturned
    /\ cpc[last.msg.caller] \in {"waiting", "sending"}

====
